---------------------------- MODULE Spec2Model ----------------------------
(***************************************************************************)
(* Model of src/models/autoCodeNet.py: ConvLSTMCell, ConvLSTM and          *)
(* LongShortTimeAutoEncodeDecoder.                                         *)
(*                                                                         *)
(* Tensors are records [shape, data].  shape is the torch shape; data is   *)
(* nested by every axis but the last two: the content of one [H, W] plane  *)
(* is one fixed-point number (ONE units = 1.0), which is the exact         *)
(* computation for a plane met only by the centre tap of the kernel.       *)
(* Python values that the code type-tests (kernel_size, hidden_dim) are    *)
(* records [type, val, items].  Sequences are 1-based: Python x[i] is      *)
(* x[i + 1] here.                                                          *)
(***************************************************************************)
EXTENDS Integers, Sequences, FiniteSets, TLC

\* ------------------------------------------------------------------ bounds
\* most layers of a stack, most time steps of a sequence, largest clip batch
MaxLayers == 2
MaxT == 3
MaxBatch == 3
\* resolution of the fixed-point plane values: ONE units are 1.0
ONE == 256

\* A function over 1..n held as a sequence (evaluated once, where it is built).
List(f) == f \o <<>>

\* ------------------------------------------------------- Python values
PyInt(n) == [type |-> "int", val |-> n, items |-> <<>>]
PyTuple(s) == [type |-> "tuple", val |-> 0, items |-> List([i \in 1..Len(s) |-> PyInt(s[i])])]
PyList(s) == [type |-> "list", val |-> 0, items |-> s]
isinstance(v, t) == v.type = t

\* ------------------------------------------------------- tensor helpers
Unset == [shape |-> <<>>, data |-> <<>>]

\* torch.zeros(b, c, h, w)
Zeros(b, c, h, w) ==
    [shape |-> <<b, c, h, w>>, data |-> List([i \in 1..b |-> List([j \in 1..c |-> 0])])]

\* x[:, :, lo:hi, :, :] of a 5-D tensor (Python half-open, 0-based)
Slice2(x, lo, hi) ==
    [shape |-> <<x.shape[1], x.shape[2], hi - lo, x.shape[4], x.shape[5]>>,
     data |-> List([i \in 1..x.shape[1] |-> List([j \in 1..x.shape[2] |->
                 List([k \in 1..(hi - lo) |-> x.data[i][j][lo + k]])])])]

\* torch.transpose(x, 1, 2) of a 5-D tensor
Transpose12(x) ==
    [shape |-> <<x.shape[1], x.shape[3], x.shape[2], x.shape[4], x.shape[5]>>,
     data |-> List([i \in 1..x.shape[1] |-> List([j \in 1..x.shape[3] |->
                 List([k \in 1..x.shape[2] |-> x.data[i][k][j]])])])]

\* x.permute(1, 0, 2, 3, 4) of a 5-D tensor
Permute10(x) ==
    [shape |-> <<x.shape[2], x.shape[1], x.shape[3], x.shape[4], x.shape[5]>>,
     data |-> List([i \in 1..x.shape[2] |-> List([j \in 1..x.shape[1] |-> x.data[j][i]])])]

\* torch.cat([x, y], 0)
Cat0(x, y) ==
    [shape |-> [x.shape EXCEPT ![1] = x.shape[1] + y.shape[1]],
     data |-> x.data \o y.data]

\* torch.cat([x, y], dim=1) of two 4-D tensors
Cat1(x, y) ==
    [shape |-> [x.shape EXCEPT ![2] = x.shape[2] + y.shape[2]],
     data |-> List([i \in 1..x.shape[1] |-> x.data[i] \o y.data[i]])]

\* x[lo:hi, :, :, :] (Python slicing clips hi to the length)
Slice0(x, lo, hi) ==
    LET top == IF hi < x.shape[1] THEN hi ELSE x.shape[1]
        n == IF top > lo THEN top - lo ELSE 0
    IN [shape |-> [x.shape EXCEPT ![1] = n],
        data |-> List([i \in 1..n |-> x.data[lo + i]])]

\* x[i, :, :, :] for 0-based i within range
Index0(x, i) == [shape |-> Tail(x.shape), data |-> x.data[i + 1]]

\* torch.unsqueeze(x, 0)
Unsqueeze0(x) == [shape |-> <<1>> \o x.shape, data |-> <<x.data>>]

\* x[:, t, :, :, :] for 0-based t
SelectT(x, t) ==
    [shape |-> <<x.shape[1], x.shape[3], x.shape[4], x.shape[5]>>,
     data |-> List([i \in 1..x.shape[1] |-> x.data[i][t + 1]])]

\* torch.stack(xs, dim=1) of a non-empty list of equal-shape 4-D tensors
Stack1(xs) ==
    LET s == xs[1].shape
    IN [shape |-> <<s[1], Len(xs), s[2], s[3], s[4]>>,
        data |-> List([i \in 1..s[1] |-> List([t \in 1..Len(xs) |-> xs[t].data[i]])])]

\* torch.split(x, size, dim=1)[k] for 0-based k
SplitChunk(x, size, k) ==
    [shape |-> [x.shape EXCEPT ![2] = size],
     data |-> List([i \in 1..x.shape[1] |-> List([j \in 1..size |-> x.data[i][k * size + j]])])]

\* ------------------------------------------------------- scalar arithmetic
Clamp(v, lo, hi) == IF v < lo THEN lo ELSE IF v > hi THEN hi ELSE v
\* torch.sigmoid: value ONE/2 and slope 1/4 at 0, range strictly inside (0, ONE)
Sigmoid(v) == Clamp((ONE \div 2) + (v \div 4), 1, ONE - 1)
\* torch.tanh: value 0 and slope 1 at 0, range strictly inside (-ONE, ONE)
Tanh(v) == Clamp(v, 1 - ONE, ONE - 1)
Mul(a, b) == (a * b) \div ONE
Add(a, b) == a + b

\* elementwise operations on 4-D tensors of one shape
TSigmoid(x) ==
    [shape |-> x.shape,
     data |-> List([i \in 1..x.shape[1] |-> List([j \in 1..x.shape[2] |-> Sigmoid(x.data[i][j])])])]
TTanh(x) ==
    [shape |-> x.shape,
     data |-> List([i \in 1..x.shape[1] |-> List([j \in 1..x.shape[2] |-> Tanh(x.data[i][j])])])]
TMul(x, y) ==
    [shape |-> x.shape,
     data |-> List([i \in 1..x.shape[1] |-> List([j \in 1..x.shape[2] |->
                 Mul(x.data[i][j], y.data[i][j])])])]
TAdd(x, y) ==
    [shape |-> x.shape,
     data |-> List([i \in 1..x.shape[1] |-> List([j \in 1..x.shape[2] |->
                 Add(x.data[i][j], y.data[i][j])])])]

RECURSIVE SumTo(_, _)
SumTo(f, n) == IF n = 0 THEN 0 ELSE f[n] + SumTo(f, n - 1)

\* ------------------------------------------------------------ ConvLSTMCell
\* The parameters of nn.Conv2d (centre tap), selected by the cell's weights
\* field: 0 selects all-zero weights and biases.
Weight(sel, o, i) == sel * (((2 * o + 3 * i) % 5) - 1)
Bias(sel, o) == sel * (2 * ((o % 3) - 1))

\* output extent of one spatial axis under nn.Conv2d(kernel k, padding p)
ConvOut(n, k, p) == n + 2 * p - k + 1

\* self.conv(combined); defined when combined has in_channels channels
Conv2d(cell, x) ==
    LET nout == 4 * cell.hidden_dim
        nin == x.shape[2]
    IN [shape |-> <<x.shape[1], nout,
                    ConvOut(x.shape[3], cell.kernel_size.items[1].val, cell.padding[1]),
                    ConvOut(x.shape[4], cell.kernel_size.items[2].val, cell.padding[2])>>,
        data |-> List([b \in 1..x.shape[1] |-> List([o \in 1..nout |->
                    (IF cell.bias THEN Bias(cell.weights, o) ELSE 0)
                    + SumTo(List([i \in 1..nin |-> Weight(cell.weights, o, i) * x.data[b][i]]),
                            nin)])])]

\* ConvLSTMCell.__init__; weights stands for the parameters nn.Conv2d creates
ConvLSTMCell_init(input_dim, hidden_dim, kernel_size, bias, weights) ==
    IF Len(kernel_size.items) < 2
    THEN [err |-> "IndexError", cell |-> <<>>]
    ELSE [err |-> "none",
          cell |-> [input_dim |-> input_dim,
                    hidden_dim |-> hidden_dim,
                    kernel_size |-> kernel_size,
                    padding |-> <<kernel_size.items[1].val \div 2,
                                  kernel_size.items[2].val \div 2>>,
                    bias |-> bias,
                    weights |-> weights]]

\* CNext with the candidate g left out of the input term
CNextNoCandidate(f, c_cur, i, g) == TAdd(TMul(f, c_cur), i)

\* c_next = f * c_cur + i * g
CNext(f, c_cur, i, g) == TAdd(TMul(f, c_cur), TMul(i, g))

\* h_next = o * torch.tanh(c_next)
HNext(o, c_next) == TMul(o, TTanh(c_next))

\* ConvLSTMCell.forward; cur_state is <<h_cur, c_cur>>.  A shape the tensor
\* operations reject is a RuntimeError (unequal shapes are not broadcast).
ConvLSTMCell_forward(cell, input_tensor, cur_state) ==
    LET h_cur == cur_state[1]
        c_cur == cur_state[2]
    IN IF \/ Len(input_tensor.shape) # 4 \/ Len(h_cur.shape) # 4
          \/ input_tensor.shape[1] # h_cur.shape[1]
          \/ input_tensor.shape[3] # h_cur.shape[3]
          \/ input_tensor.shape[4] # h_cur.shape[4]
          \/ input_tensor.shape[2] + h_cur.shape[2] # cell.input_dim + cell.hidden_dim
       THEN [err |-> "RuntimeError", h |-> Unset, c |-> Unset]
       ELSE LET combined == Cat1(input_tensor, h_cur)
                combined_conv == Conv2d(cell, combined)
                cc_i == SplitChunk(combined_conv, cell.hidden_dim, 0)
                cc_f == SplitChunk(combined_conv, cell.hidden_dim, 1)
                cc_o == SplitChunk(combined_conv, cell.hidden_dim, 2)
                cc_g == SplitChunk(combined_conv, cell.hidden_dim, 3)
                i == TSigmoid(cc_i)
                f == TSigmoid(cc_f)
                o == TSigmoid(cc_o)
                g == TTanh(cc_g)
            IN IF f.shape # c_cur.shape
               THEN [err |-> "RuntimeError", h |-> Unset, c |-> Unset]
               ELSE LET c_next == CNext(f, c_cur, i, g)
                        h_next == HNext(o, c_next)
                    IN [err |-> "none", h |-> h_next, c |-> c_next]

\* ConvLSTMCell.init_hidden
init_hidden(cell, batch_size, image_size) ==
    <<Zeros(batch_size, cell.hidden_dim, image_size[1], image_size[2]),
      Zeros(batch_size, cell.hidden_dim, image_size[1], image_size[2])>>

\* ---------------------------------------------------------------- ConvLSTM
\* the two ValueErrors ConvLSTM.__init__ can raise
KernelSizeError == "ValueError: kernel_size must be tuple or list of tuples"
LengthError == "ValueError: Inconsistent list length."

\* check_kernel_size_consistency without the test of the elements of a list
check_kernel_size_top_only(kernel_size) ==
    ~(isinstance(kernel_size, "tuple") \/ isinstance(kernel_size, "list"))

\* ConvLSTM._check_kernel_size_consistency: TRUE when it raises ValueError
check_kernel_size_consistency(kernel_size) ==
    ~(\/ isinstance(kernel_size, "tuple")
      \/ /\ isinstance(kernel_size, "list")
         /\ \A n \in 1..Len(kernel_size.items) : isinstance(kernel_size.items[n], "tuple"))

\* ConvLSTM._extend_for_multilayer
extend_for_multilayer(param, num_layers) ==
    IF ~isinstance(param, "list")
    THEN PyList(List([n \in 1..num_layers |-> param]))
    ELSE param

\* nn.Module before any attribute of ConvLSTM is assigned
NewModule ==
    [attrs |-> {}, input_dim |-> 0, hidden_dim |-> <<>>, kernel_size |-> <<>>,
     num_layers |-> 0, batch_first |-> FALSE, bias |-> FALSE,
     return_all_layers |-> FALSE, cell_list |-> <<>>]

\* BuildCells giving every layer the input channels of the first
RECURSIVE BuildCellsSameInput(_, _, _, _)
BuildCellsSameInput(self, weights, i, cell_list) ==
    IF i >= self.num_layers
    THEN [err |-> "none", cell_list |-> cell_list]
    ELSE LET made == ConvLSTMCell_init(self.input_dim, self.hidden_dim[i + 1],
                                       self.kernel_size[i + 1], self.bias, weights)
         IN IF made.err # "none"
            THEN [err |-> made.err, cell_list |-> cell_list]
            ELSE BuildCellsSameInput(self, weights, i + 1, Append(cell_list, made.cell))

\* the loop of ConvLSTM.__init__ that appends one ConvLSTMCell per layer
RECURSIVE BuildCells(_, _, _, _)
BuildCells(self, weights, i, cell_list) ==
    IF i >= self.num_layers
    THEN [err |-> "none", cell_list |-> cell_list]
    ELSE LET cur_input_dim == IF i = 0 THEN self.input_dim ELSE self.hidden_dim[i]
             made == ConvLSTMCell_init(cur_input_dim, self.hidden_dim[i + 1],
                                       self.kernel_size[i + 1], self.bias, weights)
         IN IF made.err # "none"
            THEN [err |-> made.err, cell_list |-> cell_list]
            ELSE BuildCells(self, weights, i + 1, Append(cell_list, made.cell))

\* ConvLSTM.__init__; a.weights stands for the parameters nn.Conv2d creates
ConvLSTM_init(a) ==
    IF check_kernel_size_consistency(a.kernel_size)
    THEN [err |-> KernelSizeError, self |-> NewModule]
    ELSE LET kernel_size == extend_for_multilayer(a.kernel_size, a.num_layers)
             hidden_dim == extend_for_multilayer(a.hidden_dim, a.num_layers)
         IN IF ~(/\ Len(kernel_size.items) = Len(hidden_dim.items)
                 /\ Len(hidden_dim.items) = a.num_layers)
            THEN [err |-> LengthError, self |-> NewModule]
            ELSE LET s == [attrs |-> {"input_dim", "hidden_dim", "kernel_size",
                                      "num_layers", "batch_first", "bias",
                                      "return_all_layers"},
                           input_dim |-> a.input_dim,
                           hidden_dim |-> List([n \in 1..a.num_layers |-> hidden_dim.items[n].val]),
                           kernel_size |-> kernel_size.items,
                           num_layers |-> a.num_layers,
                           batch_first |-> a.batch_first,
                           bias |-> a.bias,
                           return_all_layers |-> a.return_all_layers,
                           cell_list |-> <<>>]
                     built == BuildCells(s, a.weights, 0, <<>>)
                 IN IF built.err # "none"
                    THEN [err |-> built.err, self |-> s]
                    ELSE [err |-> "none",
                          self |-> [s EXCEPT !.attrs = @ \cup {"cell_list"},
                                             !.cell_list = built.cell_list]]

\* ConvLSTM._init_hidden
RECURSIVE InitStates(_, _, _, _)
InitStates(self, batch_size, image_size, i) ==
    IF i >= self.num_layers
    THEN <<>>
    ELSE <<init_hidden(self.cell_list[i + 1], batch_size, image_size)>>
         \o InitStates(self, batch_size, image_size, i + 1)
ConvLSTM_init_hidden(self, batch_size, image_size) ==
    InitStates(self, batch_size, image_size, 0)

\* hidden_state=None, or a list of (h, c) pairs
None == [isNone |-> TRUE, items |-> <<>>]
StateList(items) == [isNone |-> FALSE, items |-> items]

\* ConvLSTM.forward is written as a chain of operators, each standing for the
\* statements named above it; calls logs, in order, every invocation of a
\* cell: its layer, its time step, its input and the state it started from.

RECURSIVE TimeLoop(_, _, _, _, _, _, _, _)

\* the statements after the cell call inside "for t in range(seq_len)":
\* h, c = r; output_inner.append(h); then the next t
TimeStep(self, layer_idx, cur_layer_input, seq_len, t, hc, output_inner, calls, r) ==
    IF r.err # "none"
    THEN [err |-> r.err, hc |-> hc, output_inner |-> output_inner, calls |-> calls]
    ELSE TimeLoop(self, layer_idx, cur_layer_input, seq_len, t + 1, <<r.h, r.c>>,
                  Append(output_inner, r.h), calls)

\* for t in range(seq_len): call the layer's cell on cur_layer_input[:, t]
TimeLoop(self, layer_idx, cur_layer_input, seq_len, t, hc, output_inner, calls) ==
    IF t >= seq_len
    THEN [err |-> "none", hc |-> hc, output_inner |-> output_inner, calls |-> calls]
    ELSE TimeStep(self, layer_idx, cur_layer_input, seq_len, t, hc, output_inner,
                  Append(calls, [layer |-> layer_idx, t |-> t,
                                 input |-> SelectT(cur_layer_input, t), state |-> hc]),
                  ConvLSTMCell_forward(self.cell_list[layer_idx + 1],
                                       SelectT(cur_layer_input, t), hc))

RECURSIVE LayerLoop(_, _, _, _, _, _, _, _)

\* LayerEnd handing the layer's final state to the next layer as its start
LayerEndCarry(self, hidden_state, seq_len, layer_idx, layer_output_list, last_state_list, inner) ==
    IF inner.err # "none"
    THEN [err |-> inner.err, layer_output_list |-> layer_output_list,
          last_state_list |-> last_state_list, calls |-> inner.calls]
    ELSE LayerLoop(self,
                   IF layer_idx + 2 <= Len(hidden_state)
                   THEN [hidden_state EXCEPT ![layer_idx + 2] = inner.hc]
                   ELSE hidden_state,
                   seq_len, layer_idx + 1,
                   Stack1(inner.output_inner),
                   Append(layer_output_list, Stack1(inner.output_inner)),
                   Append(last_state_list, inner.hc), inner.calls)

\* the statements after the time loop of one layer: stack the outputs, make
\* them the next layer's input, append the layer's output and last state
LayerEnd(self, hidden_state, seq_len, layer_idx, layer_output_list, last_state_list, inner) ==
    IF inner.err # "none"
    THEN [err |-> inner.err, layer_output_list |-> layer_output_list,
          last_state_list |-> last_state_list, calls |-> inner.calls]
    ELSE LayerLoop(self, hidden_state, seq_len, layer_idx + 1,
                   Stack1(inner.output_inner),
                   Append(layer_output_list, Stack1(inner.output_inner)),
                   Append(last_state_list, inner.hc), inner.calls)

\* for layer_idx in range(self.num_layers): h, c = hidden_state[layer_idx]
LayerLoop(self, hidden_state, seq_len, layer_idx, cur_layer_input, layer_output_list, last_state_list, calls) ==
    IF layer_idx >= self.num_layers
    THEN [err |-> "none", layer_output_list |-> layer_output_list,
          last_state_list |-> last_state_list, calls |-> calls]
    ELSE IF layer_idx >= Len(hidden_state)
    THEN [err |-> "IndexError", layer_output_list |-> layer_output_list,
          last_state_list |-> last_state_list, calls |-> calls]
    ELSE LayerEnd(self, hidden_state, seq_len, layer_idx, layer_output_list,
                  last_state_list,
                  TimeLoop(self, layer_idx, cur_layer_input, seq_len, 0,
                           hidden_state[layer_idx + 1], <<>>, calls))

\* xs[-1:]
LastOnly(xs) == IF Len(xs) = 0 THEN <<>> ELSE <<xs[Len(xs)]>>

\* the value of the return statement of ConvLSTM.forward
ReturnValue(layer_output_list, last_state_list) ==
    [type |-> "list", items |-> last_state_list]

\* the statements after the layer loop: keep the last layer only unless
\* return_all_layers, then return.  ret is the returned Python value; the
\* other fields record the two lists at the return and the cell invocations.
ForwardReturn(self, loop) ==
    IF loop.err # "none"
    THEN [err |-> loop.err, ret |-> [type |-> "none", items |-> <<>>],
          layer_output_list |-> <<>>, last_state_list |-> <<>>, calls |-> loop.calls]
    ELSE IF ~self.return_all_layers
    THEN [err |-> "none",
          ret |-> ReturnValue(LastOnly(loop.layer_output_list),
                              LastOnly(loop.last_state_list)),
          layer_output_list |-> LastOnly(loop.layer_output_list),
          last_state_list |-> LastOnly(loop.last_state_list),
          calls |-> loop.calls]
    ELSE [err |-> "none",
          ret |-> ReturnValue(loop.layer_output_list, loop.last_state_list),
          layer_output_list |-> loop.layer_output_list,
          last_state_list |-> loop.last_state_list,
          calls |-> loop.calls]

\* StartState that never uses a supplied hidden_state
StartStateIgnoring(self, x, hidden_state) ==
    ConvLSTM_init_hidden(self, x.shape[1], <<x.shape[4], x.shape[5]>>)

\* the initial state ConvLSTM.forward starts the layers from
StartState(self, x, hidden_state) ==
    IF hidden_state.isNone
    THEN ConvLSTM_init_hidden(self, x.shape[1], <<x.shape[4], x.shape[5]>>)
    ELSE hidden_state.items

\* ConvLSTM.forward once the input is in (b, t, c, h, w) order (seq_len >= 1)
ForwardBatchFirst(self, x, hidden_state) ==
    ForwardReturn(self, LayerLoop(self, StartState(self, x, hidden_state),
                                  x.shape[2], 0, x, <<>>, <<>>, <<>>))

\* ConvLSTM.forward
ConvLSTM_forward(self, input_tensor, hidden_state) ==
    ForwardBatchFirst(self,
                      IF ~self.batch_first THEN Permute10(input_tensor) ELSE input_tensor,
                      hidden_state)

\* ------------------------------------------ LongShortTimeAutoEncodeDecoder
\* the arguments of the three ConvLSTM(3, 3, (3,3), 1, True, True, False)
BlockArgs(weights) ==
    [input_dim |-> 3, hidden_dim |-> PyInt(3), kernel_size |-> PyTuple(<<3, 3>>),
     num_layers |-> 1, batch_first |-> TRUE, bias |-> TRUE,
     return_all_layers |-> FALSE, weights |-> weights]

\* LongShortTimeAutoEncodeDecoder.__init__; w gives each block's parameters
Pipeline_init(w) ==
    [convLstmMotionAwareBlock |-> ConvLSTM_init(BlockArgs(w[1])).self,
     convLstmMotionPredBlock |-> ConvLSTM_init(BlockArgs(w[2])).self,
     convLstmDecode |-> ConvLSTM_init(BlockArgs(w[3])).self]

\* inputs9[:, :, lo:hi, :, :] transposed to B T C H W
Window(inputs9, lo, hi) == Transpose12(Slice2(inputs9, lo, hi))

\* StackWindows with the second window cut one frame late
StackWindowsShifted(inputs9) ==
    LET inputs13 == Window(inputs9, 0, 3)
        inputs35 == Window(inputs9, 3, 6)
        inputs57 == Window(inputs9, 4, 7)
        inputs79 == Window(inputs9, 6, 9)
    IN Cat0(Cat0(Cat0(inputs13, inputs35), inputs57), inputs79)

\* the four windows concatenated along the batch axis
StackWindows(inputs9) ==
    LET inputs13 == Window(inputs9, 0, 3)
        inputs35 == Window(inputs9, 2, 5)
        inputs57 == Window(inputs9, 4, 7)
        inputs79 == Window(inputs9, 6, 9)
    IN Cat0(Cat0(Cat0(inputs13, inputs35), inputs57), inputs79)

\* SceneInput with the new axis put after the rows: three batch rows, one step
SceneInputAsBatch(c13355779) ==
    LET rows == Slice0(c13355779, 0, 3)
    IN [shape |-> <<rows.shape[1], 1>> \o Tail(rows.shape),
        data |-> List([i \in 1..rows.shape[1] |-> <<rows.data[i]>>])]

\* c133557 = unsqueeze(c13355779[0:3], 0)
SceneInput(c13355779) == Unsqueeze0(Slice0(c13355779, 0, 3))

\* cReal = unsqueeze(unsqueeze(c13355779[3], 0), 0)
DecodeInput(c13355779) == Unsqueeze0(Unsqueeze0(Index0(c13355779, 3)))

\* DecodeStateInit with the two components of the state exchanged
DecodeStateInitSwapped(c79Pred) ==
    StateList(<<<<c79Pred, Zeros(c79Pred.shape[1], c79Pred.shape[2],
                                 c79Pred.shape[3], c79Pred.shape[4])>>>>)

\* convLSTMDecodeStateInit = [(zeros(c79Pred.shape), c79Pred)]
DecodeStateInit(c79Pred) ==
    StateList(<<<<Zeros(c79Pred.shape[1], c79Pred.shape[2],
                        c79Pred.shape[3], c79Pred.shape[4]), c79Pred>>>>)

\* --------------------------------------------------------------- inputs
Kernel33 == PyTuple(<<3, 3>>)
Kernels ==
    {PyInt(3), Kernel33, PyTuple(<<3>>), PyTuple(<<3, 3, 3>>),
     PyList(<<PyInt(3), Kernel33>>), PyList(<<PyTuple(<<3, 3, 3>>)>>)}
    \cup {PyList(List([n \in 1..k |-> Kernel33])) : k \in 0..MaxLayers}
Hiddens ==
    {PyInt(2)}
    \cup {PyList(List([n \in 1..k |-> PyInt(2)])) : k \in 1..MaxLayers}
    \cup {PyList(List([n \in 1..k |-> PyInt(n)])) : k \in 2..(MaxLayers + 1)}
CtorArgs ==
    [input_dim : {2}, hidden_dim : Hiddens, kernel_size : Kernels,
     num_layers : 1..MaxLayers, batch_first : BOOLEAN, bias : BOOLEAN,
     return_all_layers : BOOLEAN, weights : {0, 1}]

ImageSizes == {<<2, 3>>, <<16, 16>>}

\* a sequence in B T C H W order; pattern 0 is the all-zero sequence
Sequence(b, t, c, size, pattern) ==
    [shape |-> <<b, t, c, size[1], size[2]>>,
     data |-> List([i \in 1..b |-> List([j \in 1..t |-> List([k \in 1..c |->
                 pattern * ((((5 * i + 3 * j + k) % 7) - 3) * 4)])])])]

\* a clip in B C T H W order with 9 frames; pattern 0 is the all-zero clip,
\* the others give every plane of the clip its own value
Clip(b, size, pattern) ==
    [shape |-> <<b, 3, 9, size[1], size[2]>>,
     data |-> List([i \in 1..b |-> List([k \in 1..3 |-> List([f \in 1..9 |->
                 pattern * (27 * (i - 1) + 9 * (k - 1) + f - 40)])])])]

\* every kernel of the stack is a (kh, kw) pair, so nn.Conv2d can run
Runnable(stack) ==
    \A n \in 1..Len(stack.kernel_size) : Len(stack.kernel_size[n].items) = 2

\* time steps lo..hi-1 of a B T C H W sequence, laid out as the stack expects
\* its input: (b, t, c, h, w) when batch_first, else (t, b, c, h, w)
TimeSlice(stack, seq, lo, hi) ==
    LET cut == [shape |-> [seq.shape EXCEPT ![2] = hi - lo],
                data |-> List([i \in 1..seq.shape[1] |-> List([j \in 1..(hi - lo) |->
                            seq.data[i][lo + j]])])]
    IN IF stack.batch_first THEN cut ELSE Permute10(cut)

NoCall ==
    [err |-> "unset", ret |-> [type |-> "none", items |-> <<>>],
     layer_output_list |-> <<>>, last_state_list |-> <<>>, calls |-> <<>>]

\* ----------------------------------------------------------------- state
VARIABLES scenario, pc, err,
          args, self, x, split, retFull, retPrefix, retSuffix,
          net, inputs9, inputs13355779, encoded, c13355779, c133557,
          predicted, c79Pred, cReal, convLSTMDecodeStateInit, decoded, h

stackVars == <<args, self, x, split, retFull, retPrefix, retSuffix>>
pipeVars == <<net, inputs9, inputs13355779, encoded, c13355779, c133557,
              predicted, c79Pred, cReal, convLSTMDecodeStateInit, decoded, h>>
vars == <<scenario, pc, err, stackVars, pipeVars>>

NoNet ==
    [convLstmMotionAwareBlock |-> NewModule, convLstmMotionPredBlock |-> NewModule,
     convLstmDecode |-> NewModule]

InitStack ==
    /\ scenario = "stack" /\ pc = "new" /\ err = "none"
    /\ args \in CtorArgs
    /\ self = NewModule /\ x = Unset /\ split = 0
    /\ retFull = NoCall /\ retPrefix = NoCall /\ retSuffix = NoCall
    /\ net = NoNet /\ inputs9 = Unset /\ inputs13355779 = Unset /\ encoded = NoCall
    /\ c13355779 = Unset /\ c133557 = Unset /\ predicted = NoCall /\ c79Pred = Unset
    /\ cReal = Unset /\ convLSTMDecodeStateInit = None /\ decoded = NoCall /\ h = Unset

InitPipe ==
    /\ scenario = "pipe" /\ pc = "new" /\ err = "none"
    /\ args = BlockArgs(0)
    /\ self = NewModule /\ x = Unset /\ split = 0
    /\ retFull = NoCall /\ retPrefix = NoCall /\ retSuffix = NoCall
    /\ net \in {Pipeline_init(w) : w \in {0, 1} \X {0, 1} \X {0, 1}}
    /\ inputs9 \in {Clip(b, size, pattern) :
                      b \in 1..MaxBatch, size \in ImageSizes, pattern \in 0..2}
    /\ inputs13355779 = Unset /\ encoded = NoCall
    /\ c13355779 = Unset /\ c133557 = Unset /\ predicted = NoCall /\ c79Pred = Unset
    /\ cReal = Unset /\ convLSTMDecodeStateInit = None /\ decoded = NoCall /\ h = Unset

Init == InitStack \/ InitPipe

\* ------------------------------------------------------- ConvLSTM actions
\* ConvLSTM(...) with the arguments args
Construct ==
    /\ scenario = "stack" /\ pc = "new"
    /\ LET r == ConvLSTM_init(args)
       IN /\ self' = r.self
          /\ err' = r.err
          /\ pc' = IF r.err = "none" THEN "built" ELSE "failed"
    /\ UNCHANGED <<scenario, args, x, split, retFull, retPrefix, retSuffix, pipeVars>>

\* self(x): one call over a whole sequence, no initial state
CallFull ==
    /\ scenario = "stack" /\ pc = "built" /\ Runnable(self)
    /\ \E b \in 1..2, t \in 1..MaxT, pattern \in 0..1 :
         LET seq == Sequence(b, t, self.input_dim, <<2, 3>>, pattern)
             r == ConvLSTM_forward(self, TimeSlice(self, seq, 0, t), None)
         IN /\ x' = seq
            /\ retFull' = r
            /\ err' = r.err
            /\ pc' = IF r.err = "none" THEN "full" ELSE "failed"
    /\ UNCHANGED <<scenario, args, self, split, retPrefix, retSuffix, pipeVars>>

\* self(x[:, :split]): the first split steps, no initial state
CallPrefix ==
    /\ scenario = "stack" /\ pc = "full"
    /\ \E t1 \in 1..(x.shape[2] - 1) :
         LET r == ConvLSTM_forward(self, TimeSlice(self, x, 0, t1), None)
         IN /\ split' = t1
            /\ retPrefix' = r
            /\ err' = r.err
            /\ pc' = IF r.err = "none" THEN "prefix" ELSE "failed"
    /\ UNCHANGED <<scenario, args, self, x, retFull, retSuffix, pipeVars>>

\* self(x[:, split:], last_states): the remaining steps, continuing from the
\* value the prefix call returned
CallSuffix ==
    /\ scenario = "stack" /\ pc = "prefix"
    /\ LET r == ConvLSTM_forward(self, TimeSlice(self, x, split, x.shape[2]),
                                 StateList(retPrefix.ret.items))
       IN /\ retSuffix' = r
          /\ err' = r.err
          /\ pc' = IF r.err = "none" THEN "suffix" ELSE "failed"
    /\ UNCHANGED <<scenario, args, self, x, split, retFull, retPrefix, pipeVars>>

\* ----------------------------- LongShortTimeAutoEncodeDecoder.forward steps
Windowing ==
    /\ scenario = "pipe" /\ pc = "new"
    /\ inputs13355779' = StackWindows(inputs9)
    /\ pc' = "windows"
    /\ UNCHANGED <<scenario, err, stackVars, net, inputs9, encoded, c13355779, c133557,
                   predicted, c79Pred, cReal, convLSTMDecodeStateInit, decoded, h>>

Encode ==
    /\ scenario = "pipe" /\ pc = "windows"
    /\ LET r == ConvLSTM_forward(net.convLstmMotionAwareBlock, inputs13355779, None)
       IN /\ encoded' = r
          /\ err' = r.err
          /\ c13355779' = IF r.err = "none" THEN r.ret.items[1][2] ELSE Unset
          /\ pc' = IF r.err = "none" THEN "encoded" ELSE "failed"
    /\ UNCHANGED <<scenario, stackVars, net, inputs9, inputs13355779, c133557,
                   predicted, c79Pred, cReal, convLSTMDecodeStateInit, decoded, h>>

SceneCode ==
    /\ scenario = "pipe" /\ pc = "encoded"
    /\ c133557' = SceneInput(c13355779)
    /\ pc' = "scene"
    /\ UNCHANGED <<scenario, err, stackVars, net, inputs9, inputs13355779, encoded,
                   c13355779, predicted, c79Pred, cReal, convLSTMDecodeStateInit,
                   decoded, h>>

Predict ==
    /\ scenario = "pipe" /\ pc = "scene"
    /\ LET r == ConvLSTM_forward(net.convLstmMotionPredBlock, c133557, None)
       IN /\ predicted' = r
          /\ err' = r.err
          /\ c79Pred' = IF r.err = "none" THEN r.ret.items[1][2] ELSE Unset
          /\ pc' = IF r.err = "none" THEN "predicted" ELSE "failed"
    /\ UNCHANGED <<scenario, stackVars, net, inputs9, inputs13355779, encoded,
                   c13355779, c133557, cReal, convLSTMDecodeStateInit, decoded, h>>

DecodePrepare ==
    /\ scenario = "pipe" /\ pc = "predicted"
    /\ cReal' = DecodeInput(c13355779)
    /\ convLSTMDecodeStateInit' = DecodeStateInit(c79Pred)
    /\ pc' = "prepared"
    /\ UNCHANGED <<scenario, err, stackVars, net, inputs9, inputs13355779, encoded,
                   c13355779, c133557, predicted, c79Pred, decoded, h>>

Decode ==
    /\ scenario = "pipe" /\ pc = "prepared"
    /\ LET r == ConvLSTM_forward(net.convLstmDecode, cReal, convLSTMDecodeStateInit)
       IN /\ decoded' = r
          /\ err' = r.err
          /\ h' = IF r.err = "none" THEN r.ret.items[1][1] ELSE Unset
          /\ pc' = IF r.err = "none" THEN "done" ELSE "failed"
    /\ UNCHANGED <<scenario, stackVars, net, inputs9, inputs13355779, encoded,
                   c13355779, c133557, predicted, c79Pred, cReal,
                   convLSTMDecodeStateInit>>

Next ==
    \/ Construct \/ CallFull \/ CallPrefix \/ CallSuffix
    \/ Windowing \/ Encode \/ SceneCode \/ Predict \/ DecodePrepare \/ Decode

Spec == Init /\ [][Next]_vars

\* ------------------------------------------------------------ properties
IsZero(t) == \A i \in 1..Len(t.data) : \A j \in 1..Len(t.data[i]) : t.data[i][j] = 0

\* the result of the cell invocation a calls entry records
StepResult(stack, call) ==
    ConvLSTMCell_forward(stack.cell_list[call.layer + 1], call.input, call.state)

PipeAt(pcs) == scenario = "pipe" /\ pc \in pcs
AfterWindowing == PipeAt({"windows", "encoded", "scene", "predicted", "prepared", "done"})
AfterEncode == PipeAt({"encoded", "scene", "predicted", "prepared", "done"})
AfterPredict == PipeAt({"predicted", "prepared", "done"})
ClipBatch == inputs9.shape[1]

\* C1: the pipeline returns one tensor [B, 3, H, W] for a clip [B, 3, 9, H, W]:
\* the batch dimension of the output equals that of the input.
C1_OutputKeepsBatch ==
    PipeAt({"done"}) =>
        h.shape = <<ClipBatch, 3, inputs9.shape[4], inputs9.shape[5]>>

\* C2 (as claimed): with B = 1 the predictor is called on a sequence of time
\* length 1 and batch 3, and performs exactly one cell step.
C2_PredictorOneStepThreeRows ==
    (AfterPredict /\ ClipBatch = 1) =>
        /\ c133557.shape[1] = 3
        /\ c133557.shape[2] = 1
        /\ Len(predicted.calls) = 1

\* C2 (amended): with B = 1 the predictor is called on a sequence of batch 1
\* and time length 3, whose step t is the encoder memory code of window t, and
\* performs exactly three cell steps, one per window code, in window order.
C2_PredictorThreeStepsOneRow ==
    (AfterPredict /\ ClipBatch = 1) =>
        /\ c133557.shape = <<1, 3, 3, inputs9.shape[4], inputs9.shape[5]>>
        /\ Len(predicted.calls) = 3
        /\ \A k \in 1..3 :
             /\ predicted.calls[k].layer = 0
             /\ predicted.calls[k].t = k - 1
             /\ predicted.calls[k].input.shape[1] = 1
             /\ predicted.calls[k].input.data[1] = c13355779.data[k]

C2_Witness ==
    /\ PipeAt({"predicted"}) /\ ClipBatch = 1
    /\ c13355779.data[1] # c13355779.data[2]
    /\ c13355779.data[2] # c13355779.data[3]

\* C3: with B = 1 the decoder is called on a one-step, one-batch sequence made
\* of the encoder memory state of the fourth window (frames 6, 7, 8), from an
\* initial state whose H is all zeros in the shape of the predictor's final
\* memory state and whose C is that memory state; it performs exactly one cell
\* step and the pipeline returns the H that step produces.
C3_DecoderStep ==
    (PipeAt({"done"}) /\ ClipBatch = 1) =>
        /\ cReal.shape = <<1, 1, 3, inputs9.shape[4], inputs9.shape[5]>>
        /\ cReal.data[1][1] = encoded.last_state_list[1][2].data[4]
        /\ \A t \in 1..3 : \A c \in 1..3 :
             inputs13355779.data[4][t][c] = inputs9.data[1][c][6 + t]
        /\ Len(decoded.calls) = 1
        /\ decoded.calls[1].input.shape = <<1, 3, inputs9.shape[4], inputs9.shape[5]>>
        /\ decoded.calls[1].input.data[1] = cReal.data[1][1]
        /\ decoded.calls[1].state[1].shape = predicted.last_state_list[1][2].shape
        /\ IsZero(decoded.calls[1].state[1])
        /\ decoded.calls[1].state[2] = predicted.last_state_list[1][2]
        /\ predicted.last_state_list[1][2] =
             StepResult(net.convLstmMotionPredBlock, predicted.calls[3]).c
        /\ h = StepResult(net.convLstmDecode, decoded.calls[1]).h

C3_Witness ==
    /\ PipeAt({"done"}) /\ ClipBatch = 1
    /\ ~IsZero(c79Pred) /\ ~IsZero(h)
    /\ h # decoded.last_state_list[1][2]

\* C8: the encoder input has batch 4*B and its row w*B + b at step t is frame
\* 2*w + t of clip b; so the windows are the frame sets {0,1,2}, {2,3,4},
\* {4,5,6}, {6,7,8}, frames 2, 4 and 6 lie in two windows, the others in one.
FramesOfWindow(w) ==
    {f \in 0..8 : \E t \in 0..2 :
        inputs13355779.data[w * ClipBatch + 1][t + 1][1] = inputs9.data[1][1][f + 1]}
C8_Windows ==
    AfterWindowing =>
        /\ inputs13355779.shape =
             <<4 * ClipBatch, 3, 3, inputs9.shape[4], inputs9.shape[5]>>
        /\ Len(inputs13355779.data) = 4 * ClipBatch
        /\ \A w \in 0..3 : \A t \in 0..2 : \A b \in 0..(ClipBatch - 1) : \A c \in 1..3 :
             inputs13355779.data[w * ClipBatch + b + 1][t + 1][c]
               = inputs9.data[b + 1][c][2 * w + t + 1]
        /\ inputs9.data[1][1][1] # inputs9.data[1][1][2] =>
             /\ \A w \in 0..3 : FramesOfWindow(w) = {2 * w, 2 * w + 1, 2 * w + 2}
             /\ \A f \in 0..8 :
                  Cardinality({w \in 0..3 : f \in FramesOfWindow(w)})
                    = IF f \in {2, 4, 6} THEN 2 ELSE 1

C8_Witness ==
    /\ PipeAt({"windows"}) /\ ClipBatch = 2
    /\ inputs9.data[1][1][1] # inputs9.data[1][1][2]

\* C9: with all weights and biases zero, every cell step started from H = 0,
\* C = 0 yields H = 0, C = 0 whatever its input, so every encoder, predictor
\* and decoder step keeps the zero state, and the output for the all-zero clip
\* [1,3,9,16,16] is the all-zero tensor [1,3,16,16].
ZeroWeights(stack) == \A n \in 1..Len(stack.cell_list) : stack.cell_list[n].weights = 0
ZeroSteps(stack, res) ==
    \A k \in 1..Len(res.calls) :
        /\ IsZero(res.calls[k].state[1])
        /\ IsZero(res.calls[k].state[2])
        /\ IsZero(StepResult(stack, res.calls[k]).h)
        /\ IsZero(StepResult(stack, res.calls[k]).c)
AllZeroWeights ==
    /\ ZeroWeights(net.convLstmMotionAwareBlock)
    /\ ZeroWeights(net.convLstmMotionPredBlock)
    /\ ZeroWeights(net.convLstmDecode)
C9_ZeroFixedPoint ==
    /\ (scenario = "pipe" /\ AllZeroWeights) =>
         /\ ZeroSteps(net.convLstmMotionAwareBlock, encoded)
         /\ ZeroSteps(net.convLstmMotionPredBlock, predicted)
         /\ ZeroSteps(net.convLstmDecode, decoded)
         /\ pc = "done" => IsZero(h)
         /\ (pc = "done" /\ inputs9.shape = <<1, 3, 9, 16, 16>> /\ inputs9 = Clip(1, <<16, 16>>, 0))
              => h = Zeros(1, 3, 16, 16)
    /\ (scenario = "stack" /\ pc = "full" /\ ZeroWeights(self)) =>
         ZeroSteps(self, retFull)

C9_Witness ==
    /\ PipeAt({"done"}) /\ AllZeroWeights
    /\ inputs9 = Clip(1, <<16, 16>>, 0)
    /\ Len(encoded.calls) = 3 /\ Len(predicted.calls) = 3 /\ Len(decoded.calls) = 1

\* what the arguments of the constructor are, read off args alone
IsPair(v) == v.type = "tuple" /\ Len(v.items) = 2
PairOrPairs(v) ==
    \/ IsPair(v)
    \/ v.type = "list" /\ \A n \in 1..Len(v.items) : IsPair(v.items[n])
TupleOrTuples(v) ==
    \/ v.type = "tuple"
    \/ v.type = "list" /\ \A n \in 1..Len(v.items) : v.items[n].type = "tuple"
BroadcastLen(v) == IF v.type = "list" THEN Len(v.items) ELSE args.num_layers
BroadcastAt(v, n) == IF v.type = "list" THEN v.items[n] ELSE v
Mismatch ==
    ~(/\ BroadcastLen(args.kernel_size) = BroadcastLen(args.hidden_dim)
      /\ BroadcastLen(args.hidden_dim) = args.num_layers)
Constructed == scenario = "stack" /\ pc # "new"

C5_ReturnsPairOfLists ==
    (scenario = "stack" /\ pc = "full") =>
        LET n == IF self.return_all_layers THEN self.num_layers ELSE 1
        IN /\ retFull.ret.type = "tuple"
           /\ Len(retFull.ret.items) = 2
           /\ Len(retFull.layer_output_list) = n
           /\ Len(retFull.last_state_list) = n

\* C6 (as claimed): for every stack configuration and every split T = T1 + T2,
\* forward over the last T2 steps, started from the value forward returned for
\* the first T1 steps, succeeds and returns what one call over all T steps
\* returns.
SuffixCalled == scenario = "stack" /\ retSuffix.err # "unset"
C6_Continuation ==
    SuffixCalled => (retSuffix.err = "none" /\ retSuffix.ret = retFull.ret)

\* C6 (amended): the same, for the stacks with num_layers = 1 or with
\* return_all_layers true.
C6_ContinuationAllStatesReturned ==
    (SuffixCalled /\ (self.num_layers = 1 \/ self.return_all_layers)) =>
        (retSuffix.err = "none" /\ retSuffix.ret = retFull.ret)

C6_Witness ==
    /\ scenario = "stack" /\ pc = "suffix"
    /\ self.num_layers = 2 /\ self.return_all_layers
    /\ retSuffix.ret # retPrefix.ret
    /\ ~IsZero(retSuffix.ret.items[2][2])

\* C7: for a kernel_size that passes the check, construction raises the
\* length ValueError exactly when, after broadcasting a non-list kernel_size or
\* hidden_dim to num_layers copies, len(kernel_size) == len(hidden_dim) ==
\* num_layers fails; then no attribute is set and no cell exists; on success
\* the stack owns num_layers cells, cell i with hidden_dim[i], kernel_size[i]
\* and input channels input_dim for i = 0, hidden_dim[i-1] for i > 0.
C7_Construction ==
    (Constructed /\ TupleOrTuples(args.kernel_size)) =>
        /\ err = LengthError <=> Mismatch
        /\ err = LengthError => (self.attrs = {} /\ self.cell_list = <<>>)
        /\ (~Mismatch /\ PairOrPairs(args.kernel_size)) => "cell_list" \in self.attrs
        /\ "cell_list" \in self.attrs =>
             /\ Len(self.cell_list) = args.num_layers
             /\ \A n \in 1..args.num_layers :
                  /\ self.cell_list[n].hidden_dim = BroadcastAt(args.hidden_dim, n).val
                  /\ self.cell_list[n].kernel_size = BroadcastAt(args.kernel_size, n)
                  /\ self.cell_list[n].input_dim =
                       IF n = 1 THEN args.input_dim
                       ELSE BroadcastAt(args.hidden_dim, n - 1).val

C7_Witness ==
    /\ Constructed /\ pc = "built"
    /\ args.num_layers = 2
    /\ self.cell_list[2].input_dim # args.input_dim

\* C10: forward over L layers and T steps performs exactly L*T cell steps,
\* all T steps of a layer in time order before any step of the next; layer l
\* starts from the l-th initial state (zeros of shape [B, hidden_dim[l], H, W]
\* when none is supplied, never the previous layer's final state); the input
\* of layer l+1 at time t is the H layer l produced at time t; the last state
\* of layer l is the (H, C) after its T-th step.
LayerMajor(res, first, seq, start) ==
    LET L == self.num_layers
        T == seq.shape[2]
        after == List([k \in 1..Len(res.calls) |-> StepResult(self, res.calls[k])])
    IN /\ Len(res.calls) = L * T
       /\ \A l \in 0..(L - 1) : \A t \in 0..(T - 1) :
            LET call == res.calls[l * T + t + 1]
            IN /\ call.layer = l
               /\ call.t = t
               /\ call.state = IF t = 0 THEN start[l + 1]
                               ELSE <<after[l * T + t].h, after[l * T + t].c>>
               /\ call.input = IF l = 0 THEN SelectT(seq, first + t)
                               ELSE after[(l - 1) * T + t + 1].h
       /\ res.last_state_list =
            IF self.return_all_layers
            THEN [l \in 1..L |-> <<after[l * T].h, after[l * T].c>>]
            ELSE <<<<after[L * T].h, after[L * T].c>>>>
ZeroStart(seq) ==
    [l \in 1..self.num_layers |->
        <<Zeros(seq.shape[1], self.hidden_dim[l], seq.shape[4], seq.shape[5]),
          Zeros(seq.shape[1], self.hidden_dim[l], seq.shape[4], seq.shape[5])>>]
C10_LayerMajorSteps ==
    /\ (scenario = "stack" /\ pc = "full") =>
         LayerMajor(retFull, 0, x, ZeroStart(x))
    /\ (scenario = "stack" /\ pc = "suffix") =>
         LayerMajor(retSuffix, split,
                    [x EXCEPT !.shape = [x.shape EXCEPT ![2] = x.shape[2] - split]],
                    retPrefix.ret.items)

C10_Witness ==
    /\ scenario = "stack" /\ pc = "full"
    /\ self.num_layers = 2 /\ x.shape[2] = 3
    /\ Len(retFull.calls) = 6
    /\ ~IsZero(retFull.calls[4].input)
    /\ ~IsZero(retFull.calls[3].state[2])

=============================================================================
